---- MODULE Spec2Model ----
(***************************************************************************)
(* Model of the ExpoCLI query executor (QueryExecutor, part_002): the two  *)
(* entry points execute and executeWithProgress, the single-threaded file  *)
(* loop, the thread pool of executeMultithreaded with its mutex-guarded    *)
(* merge and atomic completed counter, the progress observer thread, and   *)
(* the ORDER BY / LIMIT post-processing.                                   *)
(*                                                                         *)
(* Indices are 0-based as in the source (threadId, fileIdx, i); TLA+       *)
(* sequences are 1-based, so xmlFiles[i + 1] is the source's xmlFiles[i].  *)
(* Strings that are compared or parsed are sequences of character codes.   *)
(***************************************************************************)
EXTENDS Integers, Sequences, FiniteSets

(* ---------------------------- bounds ----------------------------------- *)

\* largest number of eligible files the input path resolves to
MaxFiles == 5
\* only the first MaxBad paths of a run may hold a document that fails to load
MaxBad == 1
\* largest value of std::thread::hardware_concurrency() on an
\* executeWithProgress run; the runs modelled have it detected (>= 1), the
\* undetected case (4 workers) is among the direct executeMultithreaded calls
MaxHw == 2
\* largest file count and worker count of a direct executeMultithreaded call
MaxPoolFiles == 4
MaxPoolThreads == 5
\* largest number of reports the observer thread makes through the callback
MaxPolls == 1
\* largest LIMIT value of a query
MaxLimit == 2
\* largest number of rows handed to the ORDER BY stage on its own
MaxSortRows == 3
\* largest number of elements of a document that processFile is run on
MaxNodes == 4

(* ---------------------- program constants ------------------------------ *)

\* shouldUseThreading: size_t threshold = 5
threshold == 5
\* getOptimalThreadCount: fallback when hardware_concurrency() is 0
DefaultThreads == 4
\* getOptimalThreadCount: cap on the worker count
MaxThreads == 16

(* ------------------------- strings ------------------------------------- *)

\* "10", "2", "9", "abc" as character codes
s10 == <<49, 48>>
s2 == <<50>>
s9 == <<57>>
sabc == <<97, 98, 99>>
\* "5", "+7", "-"
s5 == <<53>>
splus7 == <<43, 55>>
sminus == <<45>>

isspace(c) == c = 32 \/ (c >= 9 /\ c <= 13)
isdigit(c) == c >= 48 /\ c <= 57

RECURSIVE SkipSpace(_)
SkipSpace(s) ==
    IF s # <<>> /\ isspace(Head(s)) THEN SkipSpace(Tail(s)) ELSE s

RECURSIVE DigitsValue(_, _)
\* value of the longest prefix of digits of s, acc being the value so far
DigitsValue(s, acc) ==
    IF s # <<>> /\ isdigit(Head(s))
    THEN DigitsValue(Tail(s), acc * 10 + (Head(s) - 48))
    ELSE acc

\* std::stod on strings over digits, sign, blank and the letters a-c: skips
\* leading white space, takes an optional sign and the longest run of
\* digits, ignores what follows; ok = FALSE is std::invalid_argument
stod(s) ==
    LET t == SkipSpace(s)
        neg == t # <<>> /\ Head(t) = 45
        u == IF t # <<>> /\ (Head(t) = 45 \/ Head(t) = 43) THEN Tail(t) ELSE t
    IN  IF u # <<>> /\ isdigit(Head(u))
        THEN [ok |-> TRUE,
              val |-> IF neg THEN 0 - DigitsValue(u, 0) ELSE DigitsValue(u, 0)]
        ELSE [ok |-> FALSE, val |-> 0]

RECURSIVE StrLess(_, _)
\* std::string operator< : lexicographic on the character codes
StrLess(a, b) ==
    IF b = <<>> THEN FALSE
    ELSE IF a = <<>> THEN TRUE
    ELSE IF Head(a) # Head(b) THEN Head(a) < Head(b)
    ELSE StrLess(Tail(a), Tail(b))

(* ------------------------- sequences ----------------------------------- *)

Range(s) == {s[k] : k \in DOMAIN s}

Min(a, b) == IF a < b THEN a ELSE b

\* the multiset of the elements of s: element |-> number of occurrences
BagOf(s) == [r \in Range(s) |-> Cardinality({k \in DOMAIN s : s[k] = r})]

(* --------------------- files and processFile --------------------------- *)

\* the values of element v in document order, one list per document
Fixture == << <<s10, s2>>, <<sabc>>, <<>>, <<s2, s2>>, <<s9>>, <<>> >>

\* the document stored at a path (paths are numbered from 0)
Doc(path) == Fixture[(path % Len(Fixture)) + 1]

\* getXmlFiles: the path resolves to n eligible files, in enumeration order
getXmlFiles(n) == [k \in 1..n |-> k - 1]

\* SELECT FILE_NAME, v
select_fields == << [include_filename |-> TRUE, components |-> <<>>],
                    [include_filename |-> FALSE, components |-> <<"v">>] >>

\* the column name of a select field
FieldName(field) ==
    IF field.include_filename THEN "FILE_NAME"
    ELSE field.components[Len(field.components)]

\* the ResultRow built for one context node: one (name, value) pair per
\* select field, in select order
BuildRow(path, value) ==
    [f \in 1..Len(select_fields) |->
        << FieldName(select_fields[f]),
           IF select_fields[f].include_filename THEN path ELSE value >>]

\* processFile on a document that loads: one row per context node, in
\* document order
processFile(path) ==
    [k \in 1..Len(Doc(path)) |-> BuildRow(path, Doc(path)[k])]

(* ---------------------------- documents -------------------------------- *)

\* the document node of a parsed file, and the null node handle
DocNode == 0
NullNode == -1

\* element names of the documents
Names == {"e", "v"}

\* A document is the list of its elements in document order (depth-first,
\* pre-order); element k has a name and a parent, the parent being an
\* earlier element or DocNode for the root element.

RECURSIVE Ancestors(_, _)
\* the nodes above node k, DocNode included
Ancestors(d, k) ==
    IF k = DocNode THEN {}
    ELSE {d[k].parent} \cup Ancestors(d, d[k].parent)

\* the elements below a node
Descendants(d, node) == {k \in DOMAIN d : node \in Ancestors(d, k)}

\* node.children(), as a set
Children(d, node) == {k \in DOMAIN d : d[k].parent = node}

\* node.child_value(): the text of an element; a leaf element holds its
\* position in the document as a decimal digit, other elements hold no text
child_value(d, k) == IF Children(d, k) = {} THEN <<48 + k>> ELSE <<>>

RECURSIVE DocsOfSize(_)
\* the documents of n elements: element n is a child of element n - 1 or of
\* one of its ancestors
DocsOfSize(n) ==
    IF n = 1 THEN {<< [name |-> nm, parent |-> DocNode] >> : nm \in Names}
    ELSE UNION { {Append(d, [name |-> nm, parent |-> p]) :
                      nm \in Names,
                      p \in ({n - 1} \cup Ancestors(d, n - 1)) \ {DocNode}}
                 : d \in DocsOfSize(n - 1) }

\* <r><a/><a/><a/><b/><c/><c/></r>: three a, one b, two c
DocAlign ==
    << [name |-> "r", parent |-> DocNode],
       [name |-> "a", parent |-> 1], [name |-> "a", parent |-> 1],
       [name |-> "a", parent |-> 1], [name |-> "b", parent |-> 1],
       [name |-> "c", parent |-> 1], [name |-> "c", parent |-> 1] >>

Docs == UNION {DocsOfSize(n) : n \in 1..MaxNodes} \cup {DocAlign}

\* the least element of a non-empty set of integers
First(S) == CHOOSE k \in S : \A j \in S : k <= j

RECURSIVE InOrder(_)
\* the nodes of a set in document order
InOrder(S) == IF S = {} THEN <<>> ELSE <<First(S)>> \o InOrder(S \ {First(S)})

\* XmlNavigator::findFirstElementByName: the first element below node, in
\* depth-first pre-order, that has the name
findFirstElementByName(d, node, name) ==
    LET found == {k \in Descendants(d, node) : d[k].name = name}
    IN  IF found = {} THEN NullNode ELSE First(found)

RECURSIVE MatchesUp(_, _, _, _)
\* walking up from k gives the components, last component first, without
\* leaving the elements below root
MatchesUp(d, root, k, components) ==
    IF components = <<>> THEN TRUE
    ELSE /\ k \in Descendants(d, root)
         /\ d[k].name = components[Len(components)]
         /\ MatchesUp(d, root, d[k].parent,
                      SubSeq(components, 1, Len(components) - 1))

\* XmlNavigator::findNodesByPartialPath: the elements below root that end
\* an occurrence of the component sequence, in document order; an empty
\* sequence matches nothing
findNodesByPartialPath(d, root, components) ==
    IF components = <<>> THEN <<>>
    ELSE InOrder({k \in DOMAIN d : MatchesUp(d, root, k, components)})

\* XmlNavigator::countMatchingPaths: the number of matching elements
countMatchingPaths(d, components) ==
    Len(findNodesByPartialPath(d, DocNode, components))

\* XmlNavigator::extractValues: the file name for the FILE_NAME field, else
\* the value of every element the path matches, in document order
extractValues(d, filename, field) ==
    IF field.include_filename THEN <<filename>>
    ELSE LET nodes == findNodesByPartialPath(d, DocNode, field.components)
         IN  [k \in 1..Len(nodes) |-> child_value(d, nodes[k])]

(* ------------------------- WHERE expressions --------------------------- *)

\* A WhereExpr is <<"condition", field, op, value>> (WhereCondition) or
\* <<"logical", op, left, right>> (WhereLogical); NoWhere is the null pointer.
NoWhere == <<"null">>

RECURSIVE extractFieldPathFromWhere(_)
\* the field of the first condition, found by going left
extractFieldPathFromWhere(expr) ==
    IF expr[1] = "condition" THEN expr[2]
    ELSE IF expr[1] = "logical" THEN extractFieldPathFromWhere(expr[3])
    ELSE [include_filename |-> FALSE, components |-> <<>>]

\* the element a condition's field resolves to relative to node, the first
\* depth components of the field having been matched already; NullNode
\* when it does not resolve
resolveField(d, node, components, depth) ==
    LET rel == SubSeq(components, depth + 1, Len(components))
    IN  IF rel = <<>> THEN NullNode
        ELSE IF Len(rel) = 1 THEN findFirstElementByName(d, node, rel[1])
        ELSE LET nodes == findNodesByPartialPath(d, node, rel)
             IN  IF nodes = <<>> THEN NullNode ELSE nodes[1]

\* a comparison: numeric when both sides parse, else on the strings
compareValues(nodeValue, op, targetValue) ==
    LET numeric == stod(nodeValue).ok /\ stod(targetValue).ok
        a == stod(nodeValue).val
        b == stod(targetValue).val
    IN  CASE op = "EQ" -> IF numeric THEN a = b ELSE nodeValue = targetValue
          [] op = "LT" -> IF numeric THEN a < b
                          ELSE StrLess(nodeValue, targetValue)
          [] op = "GT" -> IF numeric THEN b < a
                          ELSE StrLess(targetValue, nodeValue)

RECURSIVE evaluateWhereExpr(_, _, _, _)
\* XmlNavigator::evaluateWhereExpr: IS_NULL holds when the field does not
\* resolve, IS_NOT_NULL when it does, a comparison when it resolves and the
\* comparison holds; AND and OR pass node and depth to both sides
evaluateWhereExpr(d, node, expr, depth) ==
    IF expr[1] = "condition"
    THEN LET found == resolveField(d, node, expr[2].components, depth)
         IN  CASE expr[3] = "IS_NULL" -> found = NullNode
               [] expr[3] = "IS_NOT_NULL" -> found # NullNode
               [] OTHER -> /\ found # NullNode
                           /\ compareValues(child_value(d, found), expr[3],
                                            expr[4])
    ELSE IF expr[2] = "AND"
         THEN /\ evaluateWhereExpr(d, node, expr[3], depth)
              /\ evaluateWhereExpr(d, node, expr[4], depth)
         ELSE \/ evaluateWhereExpr(d, node, expr[3], depth)
              \/ evaluateWhereExpr(d, node, expr[4], depth)

(* ------------------- processFile on any document ----------------------- *)

\* mutant: a field that finds no element gets no column
contextRow_skipMissing(d, filename, node, fields) ==
    LET present == SelectSeq([f \in 1..Len(fields) |-> f],
                       LAMBDA f : fields[f].include_filename
                           \/ resolveField(d, node, fields[f].components, 0)
                                  # NullNode)
    IN  [k \in 1..Len(present) |->
            << FieldName(fields[present[k]]),
               IF fields[present[k]].include_filename THEN filename
               ELSE child_value(d, resolveField(d, node,
                                    fields[present[k]].components, 0)) >>]

\* the row of a context node: for every select field its column name and
\* the file name, or the value of the first element the field finds below
\* the node, or "" when it finds none
contextRow(d, filename, node, fields) ==
    [f \in 1..Len(fields) |->
        << FieldName(fields[f]),
           IF fields[f].include_filename THEN filename
           ELSE LET found == resolveField(d, node, fields[f].components, 0)
                IN  IF found = NullNode THEN <<>> ELSE child_value(d, found) >>]

\* the rows of the nodes of a list that pass the test, in the list's order
RECURSIVE contextRows(_, _, _, _, _, _)
contextRows(d, filename, nodes, q, depth, fields) ==
    IF nodes = <<>> THEN <<>>
    ELSE (IF q.where = NoWhere
             \/ evaluateWhereExpr(d, Head(nodes), q.where, depth)
          THEN << contextRow(d, filename, Head(nodes), fields) >>
          ELSE <<>>)
         \o contextRows(d, filename, Tail(nodes), q, depth, fields)

\* processFileWithForClauses: the nodes of the first FOR clause (every
\* element of that name, or the partial-path matches of a longer path), the
\* WHERE test on each at depth 0, one row per node that passes
processFileWithForClauses(d, filename, q) ==
    LET path == q.for_clauses[1]
        iterationNodes ==
            IF Len(path) = 1
            THEN InOrder({k \in DOMAIN d : d[k].name = path[1]})
            ELSE findNodesByPartialPath(d, DocNode, path)
    IN  contextRows(d, filename, iterationNodes, q, 0, q.select_fields)

\* the larger of two numbers
Max(a, b) == IF a > b THEN a ELSE b

\* mutant: the size of the first list
maxSize_first(lists) == IF lists = <<>> THEN 0 ELSE Len(Head(lists))

RECURSIVE maxSize(_)
\* the largest size among the lists of a list
maxSize(lists) ==
    IF lists = <<>> THEN 0 ELSE Max(Len(Head(lists)), maxSize(Tail(lists)))

\* processFile without WHERE: the values of every field over the whole
\* document, then row i made of the i-th value of every field, "" for a
\* list that has no i-th value
plainProjection(d, filename, q) ==
    LET fieldResults == [f \in 1..Len(q.select_fields) |->
                            extractValues(d, filename, q.select_fields[f])]
        maxResults == maxSize(fieldResults)
    IN  [r \in 1..maxResults |->
            [f \in 1..Len(q.select_fields) |->
                << FieldName(q.select_fields[f]),
                   IF r <= Len(fieldResults[f]) THEN fieldResults[f][r]
                   ELSE <<>> >>]]

\* isNullCheck: the WHERE expression is itself an IS NULL / IS NOT NULL
\* condition
isNullCheck(q) ==
    q.where[1] = "condition" /\ q.where[3] \in {"IS_NULL", "IS_NOT_NULL"}

\* shouldEvaluate of searchTree
shouldEvaluate(d, node, q) ==
    IF isNullCheck(q)
    THEN /\ node # DocNode
         /\ \E f \in 1..Len(q.select_fields) :
              LET selectField == q.select_fields[f] IN
              /\ ~selectField.include_filename
              /\ Len(selectField.components) = 1
              /\ LET foundNode == findFirstElementByName(
                                      d, node, selectField.components[1])
                 IN  foundNode # NullNode /\ d[foundNode].parent = node
    ELSE LET whereField == extractFieldPathFromWhere(q.where)
             whereAttrNode == findFirstElementByName(
                                  d, node, whereField.components[1])
         IN  whereAttrNode # NullNode /\ d[whereAttrNode].parent = node

\* searchTree(*doc): the document node, then every element in document
\* order; a node is evaluated when shouldEvaluate says so and gives a row
\* when the WHERE expression holds on it
searchTree(d, filename, q) ==
    LET visited == <<DocNode>> \o [k \in 1..Len(d) |-> k]
        evaluated == SelectSeq(visited, LAMBDA node : shouldEvaluate(d, node, q))
    IN  contextRows(d, filename, evaluated, q, 0, q.select_fields)

\* processFile with a WHERE whose first field has two components or more:
\* the nodes matching the field's parent path, WHERE evaluated on each with
\* the parent path's length as depth
parentPathWhere(d, filename, q) ==
    LET whereField == extractFieldPathFromWhere(q.where)
        parentPath == SubSeq(whereField.components, 1,
                             Len(whereField.components) - 1)
        candidateNodes == findNodesByPartialPath(d, DocNode, parentPath)
    IN  contextRows(d, filename, candidateNodes, q, Len(parentPath),
                    q.select_fields)

\* mutant: a WHERE clause is looked at before the FOR clauses
processFileQuery_whereFirst(d, filename, q) ==
    IF q.where # NoWhere
    THEN (IF Len(extractFieldPathFromWhere(q.where).components) < 2
          THEN searchTree(d, filename, q)
          ELSE parentPathWhere(d, filename, q))
    ELSE IF q.for_clauses # <<>> THEN processFileWithForClauses(d, filename, q)
    ELSE plainProjection(d, filename, q)

\* processFile on a loaded document: FOR clauses first, then no WHERE, then
\* WHERE by the length of its first field
processFileQuery(d, filename, q) ==
    IF q.for_clauses # <<>> THEN processFileWithForClauses(d, filename, q)
    ELSE IF q.where = NoWhere THEN plainProjection(d, filename, q)
    ELSE IF Len(extractFieldPathFromWhere(q.where).components) < 2
    THEN searchTree(d, filename, q)
    ELSE parentPathWhere(d, filename, q)

(* ----------------------- ORDER BY and LIMIT ---------------------------- *)

\* the value of the first pair of the row named orderField, "" when absent
RECURSIVE FieldValue(_, _)
FieldValue(row, orderField) ==
    IF row = <<>> THEN <<>>
    ELSE IF Head(row)[1] = orderField THEN Head(row)[2]
    ELSE FieldValue(Tail(row), orderField)

\* the sort comparator: numeric when both values parse, else string order
RowLess(a, b, orderField) ==
    LET aValue == FieldValue(a, orderField)
        bValue == FieldValue(b, orderField)
    IN  IF stod(aValue).ok /\ stod(bValue).ok
        THEN stod(aValue).val < stod(bValue).val
        ELSE StrLess(aValue, bValue)

RECURSIVE SortFrom(_, _, _)
\* std::sort: every arrangement of the rows at indices I in which no row is
\* followed by a row the comparator puts before it; the order among ties is
\* unspecified, so every such arrangement is an outcome
SortFrom(s, I, orderField) ==
    IF I = {} THEN {<<>>}
    ELSE LET mins == {k \in I : \A j \in I : ~RowLess(s[j], s[k], orderField)}
             firsts == IF mins = {} THEN I ELSE mins
         IN  UNION { {<<s[k]>> \o t : t \in SortFrom(s, I \ {k}, orderField)}
                     : k \in firsts }

\* the outcomes of the ORDER BY stage (first order field only)
SortOutcomes(s, order_by_fields) ==
    IF order_by_fields = <<>> THEN {s}
    ELSE SortFrom(s, DOMAIN s, order_by_fields[1])

\* the LIMIT stage: resize when 0 <= limit < size
ApplyLimit(s, limit) ==
    IF limit >= 0 /\ limit < Len(s) THEN SubSeq(s, 1, limit) ELSE s

(* ---------------------- threading decisions ---------------------------- *)

\* mutant: the threshold test made strict
shouldUseThreading_strict(fileCount) == fileCount > threshold

shouldUseThreading(fileCount) == fileCount >= threshold

getOptimalThreadCount(hwThreads) ==
    Min(IF hwThreads = 0 THEN DefaultThreads ELSE hwThreads, MaxThreads)

(* ----------------------------- state ----------------------------------- *)

VARIABLES
    api,              \* entry point called: "none", "execute", "executeWithProgress"
    pc,               \* position of the calling thread
    xmlFiles,         \* the eligible files, in enumeration order
    bad,              \* the paths whose processFile throws std::exception
    progressCallback, \* TRUE when a non-empty callback was passed
    statsGiven,       \* TRUE when stats != nullptr
    stats,            \* the caller's ExecutionStats object
    fileCount, useThreading, threadCount,
    i,                \* index of the single-threaded loops
    allResults,       \* the result list being accumulated, then returned
    resultsMutex,     \* threadId of the holder, Free when unlocked
    completed,        \* std::atomic<size_t> completed
    done,             \* std::atomic<bool> done
    wpc,              \* position of each worker thread
    fileIdx,          \* each worker's loop variable
    fileResults,      \* each worker's local rows not yet merged
    opc,              \* position of the progress observer thread
    polls,            \* number of reports the observer has made or begun
    calls,            \* the invocations of progressCallback, in order
    processedBy,      \* fileIdx |-> the threads that called processFile on it
    query,            \* order_by_fields and limit, once they have been read
    doc,              \* the document loaded for a file by a call on one file
    fileQuery,        \* select_fields, where and for_clauses of that call
    ambiguousAttrs    \* the list checkForAmbiguousAttributes returns

vars == << api, pc, xmlFiles, bad, progressCallback, statsGiven, stats,
           fileCount, useThreading, threadCount, i, allResults, resultsMutex,
           completed, done, wpc, fileIdx, fileResults, opc, polls, calls,
           processedBy, query, doc, fileQuery, ambiguousAttrs >>

Free == -1
\* the thread of the caller, as recorded in processedBy
MainThread == -1

Workers == 0..(threadCount - 1)

NoQuery == [order_by_fields |-> <<>>, limit |-> -1]

\* no document and no query handed to a call on one file
NoDoc == <<>>
NoFileQuery == [select_fields |-> <<>>, where |-> NoWhere, for_clauses |-> <<>>]

\* a default-constructed ExecutionStats
NoStats == [total_files |-> 0, thread_count |-> 0, used_threading |-> FALSE]

Init ==
    /\ api = "none"
    /\ pc = "idle"
    /\ xmlFiles = <<>>
    /\ bad = {}
    /\ progressCallback = FALSE
    /\ statsGiven = FALSE
    /\ stats = NoStats
    /\ fileCount = 0
    /\ useThreading = FALSE
    /\ threadCount = 0
    /\ i = 0
    /\ allResults = <<>>
    /\ resultsMutex = Free
    /\ completed = 0
    /\ done = FALSE
    /\ wpc = <<>>
    /\ fileIdx = <<>>
    /\ fileResults = <<>>
    /\ opc = "none"
    /\ polls = 0
    /\ calls = <<>>
    /\ processedBy = <<>>
    /\ query = NoQuery
    /\ doc = NoDoc
    /\ fileQuery = NoFileQuery
    /\ ambiguousAttrs = <<>>

\* whether a callback and a stats object are passed: << callback, stats >>
CallChoices == {<<FALSE, FALSE>>, <<FALSE, TRUE>>, <<TRUE, TRUE>>}

\* the sets of failing paths among n files: any of the first MaxBad paths
BadChoices(n) == SUBSET (0..(Min(n, MaxBad) - 1))

threadVars == << resultsMutex, completed, done, wpc, fileIdx, fileResults,
                 opc, polls >>
inputVars == << xmlFiles, bad, progressCallback, statsGiven, doc, fileQuery,
               ambiguousAttrs >>
localVars == << fileCount, useThreading, threadCount >>

(* ------------------------------ execute -------------------------------- *)

\* execute, up to the file loop: resolve the files, return early when empty
execute(n, b) ==
    /\ pc = "idle"
    /\ api' = "execute"
    /\ xmlFiles' = getXmlFiles(n)
    /\ bad' = b
    /\ fileCount' = n
    /\ processedBy' = [k \in 1..n |-> <<>>]
    /\ pc' = IF n = 0 THEN "returned" ELSE "loop"
    /\ UNCHANGED << progressCallback, statsGiven, stats, useThreading,
                    threadCount, i, allResults, calls, query >>
    /\ UNCHANGED << doc, fileQuery, ambiguousAttrs >>
    /\ UNCHANGED threadVars

\* mutant: the rows of a file put in front of the list
executeLoop_prepend ==
    /\ pc = "loop"
    /\ api = "execute"
    /\ i < Len(xmlFiles)
    /\ LET filepath == xmlFiles[i + 1] IN
        /\ processedBy' = [processedBy EXCEPT ![i + 1] = Append(@, MainThread)]
        /\ IF filepath \in bad
           THEN UNCHANGED allResults
           ELSE allResults' = processFile(filepath) \o allResults
    /\ i' = i + 1
    /\ pc' = IF i + 1 < Len(xmlFiles) THEN "loop" ELSE "post"
    /\ UNCHANGED << api, stats, calls, query >>
    /\ UNCHANGED << inputVars, localVars, threadVars >>

\* one iteration of execute's file loop
executeLoop ==
    /\ pc = "loop"
    /\ api = "execute"
    /\ i < Len(xmlFiles)
    /\ LET filepath == xmlFiles[i + 1] IN
        /\ processedBy' = [processedBy EXCEPT ![i + 1] = Append(@, MainThread)]
        /\ IF filepath \in bad
           THEN UNCHANGED allResults
           ELSE allResults' = allResults \o processFile(filepath)
    /\ i' = i + 1
    /\ pc' = IF i + 1 < Len(xmlFiles) THEN "loop" ELSE "post"
    /\ UNCHANGED << api, stats, calls, query >>
    /\ UNCHANGED << inputVars, localVars, threadVars >>

\* the values a query's order_by_fields and limit are drawn from
OrderChoices == {<<>>, <<"v">>}
LimitChoices == -1..MaxLimit

\* mutant: LIMIT applied to the list before it is sorted
OrderByLimit_limitFirst(order_by_fields, limit) ==
    /\ query' = [order_by_fields |-> order_by_fields, limit |-> limit]
    /\ allResults' \in SortOutcomes(ApplyLimit(allResults, limit),
                                    order_by_fields)
    /\ pc' = "returned"
    /\ UNCHANGED << api, stats, i, calls, processedBy >>
    /\ UNCHANGED << inputVars, localVars, threadVars >>

\* ORDER BY on the first order field, then LIMIT, then return
OrderByLimit(order_by_fields, limit) ==
    /\ query' = [order_by_fields |-> order_by_fields, limit |-> limit]
    /\ \E sorted \in SortOutcomes(allResults, order_by_fields) :
           allResults' = ApplyLimit(sorted, limit)
    /\ pc' = "returned"
    /\ UNCHANGED << api, stats, i, calls, processedBy >>
    /\ UNCHANGED << inputVars, localVars, threadVars >>

executeOrderByLimit(order_by_fields, limit) ==
    /\ pc = "post"
    /\ api = "execute"
    /\ OrderByLimit(order_by_fields, limit)

(* ------------------------ executeWithProgress -------------------------- *)

\* mutant: the stats are filled in before the test for an empty file list
executeWithProgress_statsFirst(n, b, cs, hwThreads) ==
    /\ pc = "idle"
    /\ api' = "executeWithProgress"
    /\ xmlFiles' = getXmlFiles(n)
    /\ bad' = b
    /\ progressCallback' = cs[1]
    /\ statsGiven' = cs[2]
    /\ processedBy' = [k \in 1..n |-> <<>>]
    /\ fileCount' = n
    /\ useThreading' = shouldUseThreading(n)
    /\ threadCount' = IF shouldUseThreading(n)
                      THEN getOptimalThreadCount(hwThreads) ELSE 1
    /\ stats' = IF statsGiven'
                THEN [total_files |-> fileCount',
                      thread_count |-> threadCount',
                      used_threading |-> useThreading']
                ELSE stats
    /\ opc' = IF useThreading' THEN "check" ELSE opc
    /\ pc' = IF n = 0 THEN "returned"
             ELSE IF useThreading' THEN "launch" ELSE "loop"
    /\ UNCHANGED << i, allResults, calls, query >>
    /\ UNCHANGED << doc, fileQuery, ambiguousAttrs >>
    /\ UNCHANGED << resultsMutex, completed, done, wpc, fileIdx, fileResults,
                    polls >>

\* executeWithProgress up to the branch on useThreading: resolve the files,
\* return early when empty, decide on threading, fill stats, and on the
\* threaded branch start the progress observer thread
executeWithProgress(n, b, cs, hwThreads) ==
    /\ pc = "idle"
    /\ api' = "executeWithProgress"
    /\ xmlFiles' = getXmlFiles(n)
    /\ bad' = b
    /\ progressCallback' = cs[1]
    /\ statsGiven' = cs[2]
    /\ processedBy' = [k \in 1..n |-> <<>>]
    /\ IF n = 0
       THEN /\ pc' = "returned"
            /\ UNCHANGED << stats, fileCount, useThreading, threadCount, opc >>
       ELSE /\ fileCount' = n
            /\ useThreading' = shouldUseThreading(n)
            /\ threadCount' = IF shouldUseThreading(n)
                              THEN getOptimalThreadCount(hwThreads) ELSE 1
            /\ stats' = IF statsGiven'
                        THEN [total_files |-> fileCount',
                              thread_count |-> threadCount',
                              used_threading |-> useThreading']
                        ELSE stats
            /\ opc' = IF useThreading' THEN "check" ELSE opc
            /\ pc' = IF useThreading' THEN "launch" ELSE "loop"
    /\ UNCHANGED << i, allResults, calls, query >>
    /\ UNCHANGED << doc, fileQuery, ambiguousAttrs >>
    /\ UNCHANGED << resultsMutex, completed, done, wpc, fileIdx, fileResults,
                    polls >>

\* one iteration of the single-threaded loop of executeWithProgress
singleThreadedLoop ==
    /\ pc = "loop"
    /\ api = "executeWithProgress"
    /\ i < Len(xmlFiles)
    /\ LET filepath == xmlFiles[i + 1] IN
        /\ processedBy' = [processedBy EXCEPT ![i + 1] = Append(@, MainThread)]
        /\ IF filepath \in bad
           THEN UNCHANGED << allResults, calls >>
           ELSE /\ allResults' = allResults \o processFile(filepath)
                /\ calls' = IF progressCallback
                            THEN Append(calls, <<i + 1, fileCount, 1>>)
                            ELSE calls
    /\ i' = i + 1
    /\ pc' = IF i + 1 < Len(xmlFiles) THEN "loop" ELSE "post"
    /\ UNCHANGED << api, stats, query >>
    /\ UNCHANGED << inputVars, localVars, threadVars >>

executeWithProgressOrderByLimit(order_by_fields, limit) ==
    /\ pc = "post"
    /\ api = "executeWithProgress"
    /\ OrderByLimit(order_by_fields, limit)

(* ------------------------ executeMultithreaded ------------------------- *)

mainVars == << api, stats, i, query >>

\* the worker's loop test fileIdx < xmlFiles.size()
LoopTest(idx) == IF idx < Len(xmlFiles) THEN "run" ELSE "done"

\* executeMultithreaded: launch threadCount worker threads; worker threadId
\* starts at fileIdx = threadId and leaves at once when that is past the
\* last file
launchWorkers ==
    /\ pc = "launch"
    /\ wpc' = [w \in Workers |-> LoopTest(w)]
    /\ fileIdx' = [w \in Workers |-> w]
    /\ fileResults' = [w \in Workers |-> <<>>]
    /\ pc' = "join"
    /\ UNCHANGED << allResults, resultsMutex, completed, done, opc, polls,
                    calls, processedBy >>
    /\ UNCHANGED << mainVars, inputVars, localVars >>

workerFrame ==
    /\ UNCHANGED << pc, done, opc, polls, calls >>
    /\ UNCHANGED << mainVars, inputVars, localVars >>

\* mutant: the merge entered without taking resultsMutex
workerProcess_nolock(threadId) ==
    /\ threadId \in DOMAIN wpc
    /\ wpc[threadId] = "run"
    /\ LET filepath == xmlFiles[fileIdx[threadId] + 1] IN
        /\ processedBy' = [processedBy EXCEPT ![fileIdx[threadId] + 1] =
                               Append(@, threadId)]
        /\ IF filepath \in bad
           THEN /\ wpc' = [wpc EXCEPT ![threadId] = "catch"]
                /\ UNCHANGED << fileResults, resultsMutex >>
           ELSE /\ resultsMutex' = threadId
                /\ wpc' = [wpc EXCEPT ![threadId] = "insert"]
                /\ fileResults' = [fileResults EXCEPT ![threadId] =
                                       processFile(filepath)]
    /\ UNCHANGED << allResults, completed, fileIdx >>
    /\ workerFrame

\* processFile(xmlFiles[fileIdx]), which throws for a bad file, and on
\* success std::lock_guard<std::mutex> lock(resultsMutex); processing
\* touches nothing shared, so the worker is shown processing at the moment
\* it gets the lock
workerProcess(threadId) ==
    /\ threadId \in DOMAIN wpc
    /\ wpc[threadId] = "run"
    /\ LET filepath == xmlFiles[fileIdx[threadId] + 1] IN
        /\ processedBy' = [processedBy EXCEPT ![fileIdx[threadId] + 1] =
                               Append(@, threadId)]
        /\ IF filepath \in bad
           THEN /\ wpc' = [wpc EXCEPT ![threadId] = "catch"]
                /\ UNCHANGED << fileResults, resultsMutex >>
           ELSE /\ resultsMutex = Free
                /\ resultsMutex' = threadId
                /\ wpc' = [wpc EXCEPT ![threadId] = "insert"]
                /\ fileResults' = [fileResults EXCEPT ![threadId] =
                                       processFile(filepath)]
    /\ UNCHANGED << allResults, completed, fileIdx >>
    /\ workerFrame

\* mutant: a row equal to one already in the list is not appended
workerInsert_dedup(threadId) ==
    /\ threadId \in DOMAIN wpc
    /\ wpc[threadId] = "insert"
    /\ fileResults[threadId] # <<>>
    /\ allResults' = IF Head(fileResults[threadId]) \in Range(allResults)
                     THEN allResults
                     ELSE Append(allResults, Head(fileResults[threadId]))
    /\ fileResults' = [fileResults EXCEPT ![threadId] = Tail(@)]
    /\ UNCHANGED << resultsMutex, completed, wpc, fileIdx, processedBy >>
    /\ workerFrame

\* allResults.insert(allResults.end(), ...): the next row of fileResults is
\* appended to the shared list
workerInsert(threadId) ==
    /\ threadId \in DOMAIN wpc
    /\ wpc[threadId] = "insert"
    /\ fileResults[threadId] # <<>>
    /\ allResults' = Append(allResults, Head(fileResults[threadId]))
    /\ fileResults' = [fileResults EXCEPT ![threadId] = Tail(@)]
    /\ UNCHANGED << resultsMutex, completed, wpc, fileIdx, processedBy >>
    /\ workerFrame

\* end of the lock_guard scope, once every row has been appended
workerUnlock(threadId) ==
    /\ threadId \in DOMAIN wpc
    /\ wpc[threadId] = "insert"
    /\ fileResults[threadId] = <<>>
    /\ resultsMutex' = Free
    /\ wpc' = [wpc EXCEPT ![threadId] = "increment"]
    /\ UNCHANGED << allResults, completed, fileIdx, fileResults, processedBy >>
    /\ workerFrame

\* mutant: the stride is 1 instead of threadCount
workerIncrement_next(threadId) ==
    /\ threadId \in DOMAIN wpc
    /\ wpc[threadId] = "increment"
    /\ completed' = completed + 1
    /\ fileIdx' = [fileIdx EXCEPT ![threadId] = @ + 1]
    /\ wpc' = [wpc EXCEPT ![threadId] = LoopTest(fileIdx'[threadId])]
    /\ UNCHANGED << allResults, resultsMutex, fileResults, processedBy >>
    /\ workerFrame

\* (*completed)++ after the merge, then fileIdx += threadCount and the
\* loop test
workerIncrement(threadId) ==
    /\ threadId \in DOMAIN wpc
    /\ wpc[threadId] = "increment"
    /\ completed' = completed + 1
    /\ fileIdx' = [fileIdx EXCEPT ![threadId] = @ + threadCount]
    /\ wpc' = [wpc EXCEPT ![threadId] = LoopTest(fileIdx'[threadId])]
    /\ UNCHANGED << allResults, resultsMutex, fileResults, processedBy >>
    /\ workerFrame

\* mutant: the exception ends the worker's loop
workerCatch_abort(threadId) ==
    /\ threadId \in DOMAIN wpc
    /\ wpc[threadId] = "catch"
    /\ completed' = completed + 1
    /\ wpc' = [wpc EXCEPT ![threadId] = "done"]
    /\ UNCHANGED << allResults, resultsMutex, fileIdx, fileResults,
                    processedBy >>
    /\ workerFrame

\* mutant: a failing file is not counted as completed
workerCatch_nocount(threadId) ==
    /\ threadId \in DOMAIN wpc
    /\ wpc[threadId] = "catch"
    /\ fileIdx' = [fileIdx EXCEPT ![threadId] = @ + threadCount]
    /\ wpc' = [wpc EXCEPT ![threadId] = LoopTest(fileIdx'[threadId])]
    /\ UNCHANGED << allResults, resultsMutex, completed, fileResults,
                    processedBy >>
    /\ workerFrame

\* the catch handler: (*completed)++, then fileIdx += threadCount and the
\* loop test
workerCatch(threadId) ==
    /\ threadId \in DOMAIN wpc
    /\ wpc[threadId] = "catch"
    /\ completed' = completed + 1
    /\ fileIdx' = [fileIdx EXCEPT ![threadId] = @ + threadCount]
    /\ wpc' = [wpc EXCEPT ![threadId] = LoopTest(fileIdx'[threadId])]
    /\ UNCHANGED << allResults, resultsMutex, fileResults, processedBy >>
    /\ workerFrame

\* thread.join() on every worker, then return to executeWithProgress
joinWorkers ==
    /\ pc = "join"
    /\ \A w \in DOMAIN wpc : wpc[w] = "done"
    /\ pc' = "stop"
    /\ UNCHANGED << allResults, calls, processedBy >>
    /\ UNCHANGED << mainVars, inputVars, localVars, threadVars >>

(* ------------------------- progress observer --------------------------- *)

observerFrame ==
    /\ UNCHANGED << pc, allResults, resultsMutex, completed, done, wpc,
                    fileIdx, fileResults, processedBy >>
    /\ UNCHANGED << mainVars, inputVars, localVars >>

\* while (!done): leave the loop when done is set, else go on to the loop
\* body; after MaxPolls reports the thread stays asleep until done is set
observerCheck ==
    /\ opc = "check"
    /\ IF done
       THEN /\ opc' = "exit"
            /\ UNCHANGED polls
       ELSE /\ progressCallback => polls < MaxPolls
            /\ opc' = "call"
            /\ polls' = IF progressCallback THEN polls + 1 ELSE polls
    /\ UNCHANGED calls
    /\ observerFrame

\* mutant: the observer clears the shared list when it reports
observerCall_clear ==
    /\ opc = "call"
    /\ calls' = IF progressCallback
                THEN Append(calls, <<completed, fileCount, threadCount>>)
                ELSE calls
    /\ allResults' = IF progressCallback THEN <<>> ELSE allResults
    /\ opc' = "check"
    /\ UNCHANGED << pc, polls, resultsMutex, completed, done, wpc, fileIdx,
                    fileResults, processedBy >>
    /\ UNCHANGED << mainVars, inputVars, localVars >>

\* the loop body: report completed.load() when a callback was passed, then
\* sleep one second
observerCall ==
    /\ opc = "call"
    /\ calls' = IF progressCallback
                THEN Append(calls, <<completed, fileCount, threadCount>>)
                ELSE calls
    /\ opc' = "check"
    /\ UNCHANGED polls
    /\ observerFrame

\* mutant: done is never set
stopObserver_unset ==
    /\ pc = "stop"
    /\ done' = FALSE
    /\ pc' = "joinObserver"
    /\ UNCHANGED << allResults, resultsMutex, completed, wpc, fileIdx,
                    fileResults, opc, polls, calls, processedBy >>
    /\ UNCHANGED << mainVars, inputVars, localVars >>

\* done = true
stopObserver ==
    /\ pc = "stop"
    /\ done' = TRUE
    /\ pc' = "joinObserver"
    /\ UNCHANGED << allResults, resultsMutex, completed, wpc, fileIdx,
                    fileResults, opc, polls, calls, processedBy >>
    /\ UNCHANGED << mainVars, inputVars, localVars >>

\* mutant: the observer thread is not joined
joinObserver_detach ==
    /\ pc = "joinObserver"
    /\ pc' = "final"
    /\ UNCHANGED << allResults, calls, processedBy >>
    /\ UNCHANGED << mainVars, inputVars, localVars, threadVars >>

\* progressThread.join()
joinObserver ==
    /\ pc = "joinObserver"
    /\ opc = "exit"
    /\ pc' = "final"
    /\ UNCHANGED << allResults, calls, processedBy >>
    /\ UNCHANGED << mainVars, inputVars, localVars, threadVars >>

\* the final progress update
finalProgress ==
    /\ pc = "final"
    /\ calls' = IF progressCallback
                THEN Append(calls, <<fileCount, fileCount, threadCount>>)
                ELSE calls
    /\ pc' = "post"
    /\ UNCHANGED << allResults, processedBy >>
    /\ UNCHANGED << mainVars, inputVars, localVars, threadVars >>

(* --------------------------- specification ----------------------------- *)

Next ==
    \/ \E n \in 0..MaxFiles : \E b \in BadChoices(n) : execute(n, b)
    \/ executeLoop
    \/ \E ob \in OrderChoices : \E lim \in LimitChoices :
           executeOrderByLimit(ob, lim)
    \/ \E n \in 0..MaxFiles : \E b \in BadChoices(n) : \E cs \in CallChoices :
       \E hw \in 1..MaxHw :
           executeWithProgress(n, b, cs, hw)
    \/ singleThreadedLoop
    \/ \E ob \in OrderChoices : \E lim \in LimitChoices :
           executeWithProgressOrderByLimit(ob, lim)
    \/ launchWorkers
    \/ \E w \in Workers : workerProcess(w)
    \/ \E w \in Workers : workerInsert(w)
    \/ \E w \in Workers : workerUnlock(w)
    \/ \E w \in Workers : workerIncrement(w)
    \/ \E w \in Workers : workerCatch(w)
    \/ joinWorkers
    \/ observerCheck
    \/ observerCall
    \/ stopObserver
    \/ joinObserver
    \/ finalProgress

Spec == Init /\ [][Next]_vars

\* the steps of the calling thread once an entry point has been called
mainStep ==
    \/ executeLoop
    \/ \E ob \in OrderChoices : \E lim \in LimitChoices :
           executeOrderByLimit(ob, lim)
    \/ singleThreadedLoop
    \/ \E ob \in OrderChoices : \E lim \in LimitChoices :
           executeWithProgressOrderByLimit(ob, lim)
    \/ launchWorkers
    \/ joinWorkers
    \/ stopObserver
    \/ joinObserver
    \/ finalProgress

\* the steps of one worker thread
workerStep(threadId) ==
    \/ workerProcess(threadId)
    \/ workerInsert(threadId)
    \/ workerUnlock(threadId)
    \/ workerIncrement(threadId)
    \/ workerCatch(threadId)

\* the steps of the progress observer thread
observerStep == observerCheck \/ observerCall

\* every started thread that can take a step is eventually scheduled
FairSpec ==
    /\ Spec
    /\ WF_vars(mainStep)
    /\ \A w \in 0..(MaxHw - 1) : WF_vars(workerStep(w))
    /\ WF_vars(observerStep)

(* ------------- executeMultithreaded called on its own ------------------ *)

\* executeMultithreaded(xmlFiles, query, threadCount, completedCounter) on
\* any file list and any threadCount >= 1, no observer thread running
InitPool ==
    /\ api = "executeMultithreaded"
    /\ pc = "launch"
    /\ \E n \in 0..MaxPoolFiles :
        /\ xmlFiles = getXmlFiles(n)
        /\ bad \in BadChoices(n)
        /\ fileCount = n
        /\ processedBy = [k \in 1..n |-> <<>>]
    /\ threadCount \in 1..MaxPoolThreads
    /\ progressCallback = FALSE
    /\ statsGiven = FALSE
    /\ stats = NoStats
    /\ useThreading = TRUE
    /\ i = 0
    /\ allResults = <<>>
    /\ resultsMutex = Free
    /\ completed = 0
    /\ done = FALSE
    /\ wpc = <<>>
    /\ fileIdx = <<>>
    /\ fileResults = <<>>
    /\ opc = "none"
    /\ polls = 0
    /\ calls = <<>>
    /\ query = NoQuery
    /\ doc = NoDoc
    /\ fileQuery = NoFileQuery
    /\ ambiguousAttrs = <<>>

NextPool ==
    \/ launchWorkers
    \/ \E w \in Workers : workerProcess(w)
    \/ \E w \in Workers : workerInsert(w)
    \/ \E w \in Workers : workerUnlock(w)
    \/ \E w \in Workers : workerIncrement(w)
    \/ \E w \in Workers : workerCatch(w)
    \/ joinWorkers

PoolSpec == InitPool /\ [][NextPool]_vars

(* -------------------- the ORDER BY stage on its own --------------------- *)

\* the values of the order field among the rows handed to the sort
SortKeys == {s10, s2, s5, splus7, sminus, sabc}

\* the lists of at most n values
RECURSIVE KeyLists(_)
KeyLists(n) ==
    IF n = 0 THEN {<<>>}
    ELSE KeyLists(n - 1)
         \cup {Append(ks, key) : ks \in {l \in KeyLists(n - 1) : Len(l) = n - 1},
                                 key \in SortKeys}

\* execute at the end of its file loop over one file that gave one row per
\* value of a list of at most MaxSortRows values
InitSort ==
    /\ api = "execute"
    /\ pc = "post"
    /\ xmlFiles = getXmlFiles(1)
    /\ bad = {}
    /\ fileCount = 1
    /\ i = 1
    /\ processedBy = << <<MainThread>> >>
    /\ \E ks \in KeyLists(MaxSortRows) :
           allResults = [k \in 1..Len(ks) |-> BuildRow(0, ks[k])]
    /\ progressCallback = FALSE
    /\ statsGiven = FALSE
    /\ stats = NoStats
    /\ useThreading = FALSE
    /\ threadCount = 0
    /\ resultsMutex = Free
    /\ completed = 0
    /\ done = FALSE
    /\ wpc = <<>>
    /\ fileIdx = <<>>
    /\ fileResults = <<>>
    /\ opc = "none"
    /\ polls = 0
    /\ calls = <<>>
    /\ query = NoQuery
    /\ doc = NoDoc
    /\ fileQuery = NoFileQuery
    /\ ambiguousAttrs = <<>>

NextSort ==
    \E ob \in OrderChoices : \E lim \in LimitChoices :
        executeOrderByLimit(ob, lim)

SortSpec == InitSort /\ [][NextSort]_vars

(* ------------------ execute on one file, any query --------------------- *)

\* the FILE_NAME field and the field of a path
FileNameField == [include_filename |-> TRUE, components |-> <<>>]
Field(components) == [include_filename |-> FALSE, components |-> components]

\* a WhereCondition and a WhereLogical
Condition(components, op, value) ==
    <<"condition", Field(components), op, value>>
Logical(op, left, right) == <<"logical", op, left, right>>

\* "3"
s3 == <<51>>

\* std::filesystem::path(filepath).filename().string(): "f0" for path 0
filename(path) == <<102, 48 + path>>

\* the select lists, WHERE expressions and FOR clause lists of the queries
SelectChoices ==
    << << FileNameField, Field(<<"v">>) >>,
       << Field(<<"e">>), Field(<<"v">>) >>,
       << Field(<<"e", "v">>) >>,
       << Field(<<"a">>), Field(<<"b">>), Field(<<"c">>) >> >>

WhereChoices ==
    << NoWhere,
       Condition(<<"v">>, "GT", s2),
       Condition(<<"v">>, "IS_NULL", <<>>),
       Logical("AND", Condition(<<"v">>, "IS_NULL", <<>>),
                      Condition(<<"e">>, "IS_NOT_NULL", <<>>)),
       Condition(<<"e", "v">>, "GT", s2),
       Logical("OR", Condition(<<"v">>, "LT", s3),
                     Condition(<<"e", "v">>, "EQ", s2)) >>

ForChoices ==
    << <<>>,
       << <<"v">> >>,
       << <<"e">>, <<"v">> >>,
       << <<"e", "v">> >> >>

\* execute before its file loop, the path being one file that loads as any
\* of the documents, under any of the queries
InitEval ==
    /\ api = "execute"
    /\ pc = "loop"
    /\ xmlFiles = getXmlFiles(1)
    /\ bad = {}
    /\ fileCount = 1
    /\ i = 0
    /\ processedBy = << <<>> >>
    /\ doc \in Docs
    /\ \E sel \in DOMAIN SelectChoices : \E w \in DOMAIN WhereChoices :
       \E f \in DOMAIN ForChoices :
           fileQuery = [select_fields |-> SelectChoices[sel],
                        where |-> WhereChoices[w],
                        for_clauses |-> ForChoices[f]]
    /\ allResults = <<>>
    /\ progressCallback = FALSE
    /\ statsGiven = FALSE
    /\ stats = NoStats
    /\ useThreading = FALSE
    /\ threadCount = 0
    /\ resultsMutex = Free
    /\ completed = 0
    /\ done = FALSE
    /\ wpc = <<>>
    /\ fileIdx = <<>>
    /\ fileResults = <<>>
    /\ opc = "none"
    /\ polls = 0
    /\ calls = <<>>
    /\ query = NoQuery
    /\ ambiguousAttrs = <<>>

\* one iteration of execute's file loop, processFile working on doc under
\* fileQuery
executeLoopQuery ==
    /\ pc = "loop"
    /\ api = "execute"
    /\ i < Len(xmlFiles)
    /\ LET filepath == xmlFiles[i + 1] IN
        /\ processedBy' = [processedBy EXCEPT ![i + 1] = Append(@, MainThread)]
        /\ allResults' = allResults
               \o processFileQuery(doc, filename(filepath), fileQuery)
    /\ i' = i + 1
    /\ pc' = IF i + 1 < Len(xmlFiles) THEN "loop" ELSE "post"
    /\ UNCHANGED << api, stats, calls, query >>
    /\ UNCHANGED << inputVars, localVars, threadVars >>

NextEval ==
    \/ executeLoopQuery
    \/ \E ob \in OrderChoices : \E lim \in LimitChoices :
           executeOrderByLimit(ob, lim)

EvalSpec == InitEval /\ [][NextEval]_vars

(* -------------------- checkForAmbiguousAttributes ---------------------- *)

\* the characters of an element name
NameChars(name) ==
    CASE name = "e" -> <<101>>
      [] name = "v" -> <<118>>
      [] name = "a" -> <<97>>
      [] name = "b" -> <<98>>
      [] name = "c" -> <<99>>

RECURSIVE pathToString(_)
\* the components joined by "."
pathToString(components) ==
    IF components = <<>> THEN <<>>
    ELSE IF Len(components) = 1 THEN NameChars(components[1])
    ELSE NameChars(components[1]) \o <<46>> \o pathToString(Tail(components))

RECURSIVE checkSelectFields(_, _, _)
\* the loop over the select fields: a path of two components or more with
\* more than one match is pushed onto the list
checkSelectFields(d, fields, ambiguous) ==
    IF fields = <<>> THEN ambiguous
    ELSE LET field == Head(fields) IN
         checkSelectFields(d, Tail(fields),
             IF /\ ~field.include_filename
                /\ Len(field.components) >= 2
                /\ countMatchingPaths(d, field.components) > 1
             THEN Append(ambiguous, pathToString(field.components))
             ELSE ambiguous)

RECURSIVE checkWhereFields(_, _, _)
\* the walk over the WHERE expression, left side first: the path of a
\* condition is pushed when it is ambiguous and not yet on the list
checkWhereFields(d, expr, ambiguous) ==
    IF expr[1] = "condition"
    THEN LET fieldStr == pathToString(expr[2].components) IN
         IF /\ Len(expr[2].components) >= 2
            /\ countMatchingPaths(d, expr[2].components) > 1
            /\ \A k \in DOMAIN ambiguous : ambiguous[k] # fieldStr
         THEN Append(ambiguous, fieldStr)
         ELSE ambiguous
    ELSE IF expr[1] = "logical"
    THEN checkWhereFields(d, expr[4], checkWhereFields(d, expr[3], ambiguous))
    ELSE ambiguous

\* the select lists and WHERE expressions of the queries that are checked
AmbigSelectChoices ==
    << << FileNameField, Field(<<"v">>) >>,
       << Field(<<"e", "v">>) >>,
       << Field(<<"e", "v">>), Field(<<"e", "e">>) >>,
       << Field(<<"e", "v">>), Field(<<"v">>), Field(<<"e", "v">>) >> >>

AmbigWhereChoices ==
    << NoWhere,
       Condition(<<"e", "v">>, "LT", s3),
       Logical("AND", Condition(<<"e", "e">>, "IS_NOT_NULL", <<>>),
                      Condition(<<"e", "e">>, "IS_NULL", <<>>)),
       Logical("OR", Condition(<<"v", "v">>, "GT", s3),
                     Logical("AND", Condition(<<"v">>, "EQ", s2),
                                    Condition(<<"v", "v">>, "EQ", s2))) >>

\* before a call of checkForAmbiguousAttributes: the first file of the
\* path, when there is one, holds any of the documents
InitAmbig ==
    /\ api = "none"
    /\ pc = "idle"
    /\ doc \in Docs
    /\ \E sel \in DOMAIN AmbigSelectChoices :
       \E w \in DOMAIN AmbigWhereChoices :
           fileQuery = [select_fields |-> AmbigSelectChoices[sel],
                        where |-> AmbigWhereChoices[w],
                        for_clauses |-> <<>>]
    /\ xmlFiles = <<>>
    /\ bad = {}
    /\ progressCallback = FALSE
    /\ statsGiven = FALSE
    /\ stats = NoStats
    /\ fileCount = 0
    /\ useThreading = FALSE
    /\ threadCount = 0
    /\ i = 0
    /\ allResults = <<>>
    /\ resultsMutex = Free
    /\ completed = 0
    /\ done = FALSE
    /\ wpc = <<>>
    /\ fileIdx = <<>>
    /\ fileResults = <<>>
    /\ opc = "none"
    /\ polls = 0
    /\ calls = <<>>
    /\ processedBy = <<>>
    /\ query = NoQuery
    /\ ambiguousAttrs = <<>>

\* checkForAmbiguousAttributes on a path of n files: nothing to report
\* without a file, else the select fields and then the WHERE fields are
\* checked against the first file's document
checkForAmbiguousAttributes(n) ==
    /\ pc = "idle"
    /\ api' = "checkForAmbiguousAttributes"
    /\ xmlFiles' = getXmlFiles(n)
    /\ ambiguousAttrs' =
           IF n = 0 THEN <<>>
           ELSE LET selected == checkSelectFields(doc, fileQuery.select_fields,
                                                  <<>>)
                IN  IF fileQuery.where = NoWhere THEN selected
                    ELSE checkWhereFields(doc, fileQuery.where, selected)
    /\ pc' = "returned"
    /\ UNCHANGED << bad, progressCallback, statsGiven, doc, fileQuery, stats,
                    i, allResults, calls, processedBy, query >>
    /\ UNCHANGED << localVars, threadVars >>

NextAmbig == \E n \in 0..1 : checkForAmbiguousAttributes(n)

AmbigSpec == InitAmbig /\ [][NextAmbig]_vars

(* ------------------------------ claims --------------------------------- *)

\* the FILE_NAME column of a row
RowFile(row) == FieldValue(row, "FILE_NAME")

RECURSIVE ConcatRows(_, _)
\* the rows of the files, file after file in the order of the list, a file
\* of badset giving none
ConcatRows(files, badset) ==
    IF files = <<>> THEN <<>>
    ELSE (IF Head(files) \in badset THEN <<>> ELSE processFile(Head(files)))
         \o ConcatRows(Tail(files), badset)

\* the files that load, in enumeration order
GoodFiles == SelectSeq(xmlFiles, LAMBDA f : f \notin bad)

\* the rows of allResults that come from one file, in their order
RowsFrom(path) == SelectSeq(allResults, LAMBDA r : RowFile(r) = path)

IsPrefix(s, t) == Len(s) <= Len(t) /\ s = SubSeq(t, 1, Len(s))

Last(s) == s[Len(s)]

Threaded == pc \in {"launch", "join", "stop", "joinObserver", "final"}

\* C1: executeWithProgress takes the multi-threaded path exactly when there
\* are 5 or more eligible files; the stats then hold used_threading = (n >= 5)
\* and total_files = n, and thread_count = 1 when used_threading is false.
C1_ThreadingThreshold ==
    (api = "executeWithProgress" /\ Len(xmlFiles) >= 1) =>
        /\ useThreading = (Len(xmlFiles) >= 5)
        /\ Threaded => Len(xmlFiles) >= 5
        /\ pc = "loop" => Len(xmlFiles) < 5
        /\ (wpc # <<>>) => Len(xmlFiles) >= 5
        /\ statsGiven =>
            /\ stats.used_threading = (Len(xmlFiles) >= 5)
            /\ stats.total_files = Len(xmlFiles)
            /\ ~stats.used_threading => stats.thread_count = 1

C1_Witness ==
    /\ api = "executeWithProgress"
    /\ statsGiven
    /\ Len(xmlFiles) = 5
    /\ stats.used_threading
    /\ stats.total_files = 5
    /\ pc = "returned"

\* C2: once the workers are joined, the merged result of executeMultithreaded
\* is, as a multiset, the rows that processing the files one after the other
\* in enumeration order gives.
C2_SameRowsAsSequential ==
    (api = "executeMultithreaded" /\ pc = "stop") =>
        BagOf(allResults) = BagOf(ConcatRows(xmlFiles, bad))

\* merged in an order other than enumeration order, with a row that occurs
\* twice
C2_Witness ==
    /\ api = "executeMultithreaded"
    /\ pc = "stop"
    /\ threadCount >= 2
    /\ Len(allResults) = 5
    /\ allResults # ConcatRows(xmlFiles, bad)
    /\ \E p, q \in DOMAIN allResults : p # q /\ allResults[p] = allResults[q]

\* C3: on both paths a failing file contributes no row, every file is still
\* processed, and the result before ORDER BY holds the rows of the query
\* run on the files that load alone.
C3_FailureIsolation ==
    /\ \A k \in DOMAIN allResults : RowFile(allResults[k]) \notin bad
    /\ pc = "post" =>
        /\ \A f \in DOMAIN processedBy : Len(processedBy[f]) = 1
        /\ BagOf(allResults) = BagOf(ConcatRows(GoodFiles, {}))

C3_Witness ==
    /\ pc = "post"
    /\ useThreading
    /\ bad # {}
    /\ Len(allResults) >= 4

\* C4: file index i is processed by worker i mod T and by no other worker,
\* at most once while the pool runs and exactly once when it has been joined.
C4_StridedDistribution ==
    \A f \in DOMAIN processedBy :
        /\ Len(processedBy[f]) <= 1
        /\ \A k \in DOMAIN processedBy[f] :
               processedBy[f][k] = (f - 1) % threadCount
        /\ pc = "stop" => Len(processedBy[f]) = 1

\* more workers than files
C4_Witness ==
    /\ pc = "stop"
    /\ threadCount > Len(xmlFiles)
    /\ Len(xmlFiles) >= 3
    /\ \A f \in DOMAIN processedBy : processedBy[f] = <<f - 1>>

\* C5: at most one worker is inside the merge section, and in the shared
\* list the rows of a file are contiguous and in the file's document order.
C5_MutualExclusion ==
    /\ Cardinality({w \in DOMAIN wpc : wpc[w] = "insert"}) <= 1
    /\ \A p, q \in DOMAIN allResults :
        (p < q /\ RowFile(allResults[p]) = RowFile(allResults[q])) =>
            \A r \in p..q : RowFile(allResults[r]) = RowFile(allResults[p])
    /\ \A k \in DOMAIN xmlFiles :
        IsPrefix(RowsFrom(xmlFiles[k]), processFile(xmlFiles[k]))

\* a two-row file merged ahead of another two-row file that precedes it
C5_Witness ==
    /\ pc = "stop"
    /\ Len(allResults) = 5
    /\ RowFile(allResults[1]) = 3
    /\ RowFile(allResults[2]) = 3
    /\ RowFile(allResults[5]) = 0

\* C6: single-threaded with a callback, the callback is invoked once per
\* file, after file k with (k, total, 1), whether the file loads or fails.
C6_CallbackOncePerFile ==
    (api = "executeWithProgress" /\ ~useThreading /\ progressCallback
        /\ pc \in {"post", "returned"}) =>
        calls = [k \in 1..fileCount |-> <<k, fileCount, 1>>]

\* the state once the final progress update has been made
C7_FinalCall ==
    (api = "executeWithProgress" /\ useThreading /\ progressCallback
        /\ pc \in {"post", "returned"}) =>
        /\ calls # <<>>
        /\ Last(calls) = <<fileCount, fileCount, threadCount>>
        /\ \A w \in DOMAIN wpc : wpc[w] = "done"

\* C7: threaded with a callback, once the workers and the observer are
\* joined the callback has been invoked with (total, total, workerCount),
\* and no invocation follows that one.
C7_FinalProgress ==
    /\ []C7_FinalCall
    /\ [][(useThreading /\ pc \in {"post", "returned"}) => calls' = calls]_vars

\* the observer never polled: the final call is the only one
C7_Witness ==
    /\ api = "executeWithProgress"
    /\ useThreading
    /\ progressCallback
    /\ pc = "returned"
    /\ polls = 0
    /\ calls = << <<5, 5, 2>> >>

\* the rows an ORDER BY on the query's first order field accepts as sorted
Sorted(s) ==
    query.order_by_fields # <<>> =>
        \A p, q \in DOMAIN s :
            p < q => ~RowLess(s[q], s[p], query.order_by_fields[1])

\* every row of s occurs in t at least as often as in s
SubBag(s, t) ==
    \A r \in Range(s) :
        Cardinality({k \in DOMAIN s : s[k] = r})
            <= Cardinality({k \in DOMAIN t : t[k] = r})

\* the rows returned, as the files and the query determine them
C8_Result ==
    (api = "executeWithProgress" /\ pc = "returned" /\ xmlFiles # <<>>) =>
        LET rows == ConcatRows(xmlFiles, bad) IN
        IF useThreading
        THEN /\ SubBag(allResults, rows)
             /\ Len(allResults) = Len(ApplyLimit(rows, query.limit))
             /\ Sorted(allResults)
        ELSE allResults \in {ApplyLimit(x, query.limit) :
                                x \in SortOutcomes(rows, query.order_by_fields)}

\* C8: a step of the observer thread, and an invocation of the callback on
\* the threaded path, leave the shared result list and the workers' state
\* as they are, and the rows returned are those the files and the query
\* determine, whatever progressCallback and stats are.
C8_Observational ==
    /\ []C8_Result
    /\ [][(opc' # opc \/ (useThreading /\ calls' # calls)) =>
            UNCHANGED << allResults, resultsMutex, completed, wpc, fileIdx,
                         fileResults >>]_vars

\* the observer reported while workers were still running
C8_Witness ==
    /\ api = "executeWithProgress"
    /\ pc = "returned"
    /\ useThreading
    /\ progressCallback
    /\ statsGiven
    /\ Len(calls) = 2
    /\ calls[1][1] \in 1..4
    /\ Len(allResults) >= 3

\* C9: under fair scheduling a threaded run finishes: every worker reaches
\* the end of its loop, the observer leaves its loop, and
\* executeWithProgress returns.
C9_RunsToCompletion ==
    (pc = "launch") ~>
        (/\ pc = "returned"
         /\ opc = "exit"
         /\ \A w \in DOMAIN wpc : wpc[w] = "done")

\* returned after the observer had reported, two workers sharing the files
C9_Witness ==
    /\ pc = "returned"
    /\ useThreading
    /\ opc = "exit"
    /\ polls = 1
    /\ threadCount = 2

\* C10: on the single-threaded paths the list before ORDER BY/LIMIT is the
\* concatenation of the per-file rows in enumeration order.
C10_EnumerationOrder ==
    (api \in {"execute", "executeWithProgress"} /\ ~useThreading
        /\ pc \in {"loop", "post"}) =>
        /\ allResults = ConcatRows(SubSeq(xmlFiles, 1, i), bad)
        /\ \A p, q \in DOMAIN allResults :
               p < q => RowFile(allResults[p]) <= RowFile(allResults[q])

C10_Witness ==
    /\ api = "execute"
    /\ pc = "post"
    /\ Len(xmlFiles) = 4
    /\ bad = {}
    /\ Len(allResults) = 5

\* the rows of t that are left when the rows of s are taken out of it
\* (s a sub-multiset of t): row |-> number of occurrences left
Remainder(s, t) ==
    [r \in Range(t) |->
        Cardinality({k \in DOMAIN t : t[k] = r})
            - Cardinality({k \in DOMAIN s : s[k] = r})]

\* C11: the rows returned are the first min(L, count) rows of the sorted
\* list when a limit L >= 0 is given (none for L = 0) and the whole sorted
\* list otherwise: no row left out goes before a row returned, and without
\* ORDER BY the rows are the first rows of the list as the files gave it.
C11_LimitAfterOrderBy ==
    (api \in {"execute", "executeWithProgress"} /\ pc = "returned"
        /\ xmlFiles # <<>>) =>
        LET rows == ConcatRows(xmlFiles, bad)
            count == Len(rows)
            kept == IF query.limit >= 0 THEN Min(query.limit, count)
                    ELSE count
            left == Remainder(allResults, rows)
        IN  /\ Len(allResults) = kept
            /\ SubBag(allResults, rows)
            /\ Sorted(allResults)
            /\ query.order_by_fields # <<>> =>
                   \A r \in DOMAIN left : \A k \in DOMAIN allResults :
                       left[r] > 0 =>
                           ~RowLess(r, allResults[k],
                                    query.order_by_fields[1])
            /\ (query.order_by_fields = <<>> /\ ~useThreading) =>
                   allResults = SubSeq(rows, 1, kept)

\* LIMIT 2 with ORDER BY on five rows whose first two rows before the sort
\* are not the two smallest
C11_Witness ==
    /\ api = "execute"
    /\ pc = "returned"
    /\ query.order_by_fields = <<"v">>
    /\ query.limit = 2
    /\ Len(ConcatRows(xmlFiles, bad)) = 5
    /\ Len(allResults) = 2
    /\ allResults # SubSeq(ConcatRows(xmlFiles, bad), 1, 2)
    /\ \A k \in DOMAIN allResults : FieldValue(allResults[k], "v") = s2

\* C12: on the order-field values of any rows handed to the sort, the
\* comparator is irreflexive, asymmetric and transitive, and so the list
\* returned under ORDER BY has no row that the comparator puts before an
\* earlier row.
C12_ComparatorTotalOrder ==
    /\ \A a, b, c \in Range(allResults) :
        /\ ~RowLess(a, a, "v")
        /\ RowLess(a, b, "v") => ~RowLess(b, a, "v")
        /\ (RowLess(a, b, "v") /\ RowLess(b, c, "v")) => RowLess(a, c, "v")
    /\ pc = "returned" => Sorted(allResults)

\* the column names a query's select fields stand for, in select order
SelectNames(q) ==
    [f \in 1..Len(q.select_fields) |->
        IF q.select_fields[f].include_filename THEN "FILE_NAME"
        ELSE q.select_fields[f].components[
                 Len(q.select_fields[f].components)]]

\* the strategy processFile takes for a query
Strategy(q) ==
    IF q.for_clauses # <<>> THEN "for"
    ELSE IF q.where = NoWhere THEN "plain"
    ELSE IF Len(extractFieldPathFromWhere(q.where).components) < 2
    THEN "shorthand"
    ELSE "parent"

\* C13: every row of the result, before and after ORDER BY and LIMIT, has
\* one entry per select field, and its column names are the select fields'
\* names in select order, whichever strategy produced it.
C13_ColumnOrder ==
    \A k \in DOMAIN allResults :
        /\ Len(allResults[k]) = Len(fileQuery.select_fields)
        /\ [f \in DOMAIN allResults[k] |-> allResults[k][f][1]]
               = SelectNames(fileQuery)

\* sorted and limited rows of a WHERE-filtered FOR query, one of them with a
\* field that found nothing
C13_Witness ==
    /\ pc = "returned"
    /\ Strategy(fileQuery) = "for"
    /\ fileQuery.where # NoWhere
    /\ Len(fileQuery.select_fields) = 2
    /\ query.order_by_fields = <<"v">>
    /\ query.limit = 2
    /\ Len(allResults) = 2
    /\ allResults[1][2][2] = <<>>
    /\ allResults[2][2][2] # <<>>

RECURSIVE WhereFields(_)
\* the fields of the conditions of a WHERE expression
WhereFields(expr) ==
    IF expr[1] = "condition" THEN {expr[2]}
    ELSE IF expr[1] = "logical"
    THEN WhereFields(expr[3]) \cup WhereFields(expr[4])
    ELSE {}

\* the paths of two components or more among the select fields and the
\* WHERE fields of a query that match more than once in a document
AmbiguousPaths(d, q) ==
    {f.components :
        f \in {g \in {q.select_fields[k] : k \in DOMAIN q.select_fields}
                        \cup WhereFields(q.where) :
                  /\ ~g.include_filename
                  /\ Len(g.components) >= 2
                  /\ countMatchingPaths(d, g.components) > 1}}

\* C15: the list checkForAmbiguousAttributes returns holds the dotted path
\* of every ambiguous path of the query, each of them once, and nothing
\* else.
C15_AmbiguousOnce ==
    (api = "checkForAmbiguousAttributes" /\ pc = "returned"
        /\ xmlFiles # <<>>) =>
        /\ Range(ambiguousAttrs)
               = {pathToString(p) : p \in AmbiguousPaths(doc, fileQuery)}
        /\ \A p, r \in DOMAIN ambiguousAttrs :
               p # r => ambiguousAttrs[p] # ambiguousAttrs[r]

\* C16: when the path resolves to no eligible file, execute and
\* executeWithProgress return at once with an empty result: no worker and no
\* observer thread is started, the callback is not invoked, and the caller's
\* stats are as they were before the call.
C16_NoFilesNoEffect ==
    (api \in {"execute", "executeWithProgress"} /\ xmlFiles = <<>>) =>
        /\ pc = "returned"
        /\ allResults = <<>>
        /\ wpc = <<>>
        /\ opc = "none"
        /\ calls = <<>>
        /\ stats = NoStats
        /\ completed = 0
        /\ ~done

\* executeWithProgress on no file, with a callback and a stats object
C16_Witness ==
    /\ api = "executeWithProgress"
    /\ pc = "returned"
    /\ xmlFiles = <<>>
    /\ progressCallback
    /\ statsGiven
    /\ stats = NoStats

RECURSIVE AnchorCondition(_)
\* the first condition met going left from the top of a WHERE expression
AnchorCondition(expr) ==
    IF expr[1] = "logical" THEN AnchorCondition(expr[3]) ELSE expr

\* the WHERE expression's first condition is IS NULL or IS NOT NULL
AnchorIsNullCheck(q) ==
    AnchorCondition(q.where)[3] \in {"IS_NULL", "IS_NOT_NULL"}

\* element k has an element of that name among its children
ParentsName(d, k, name) == \E c \in Children(d, k) : d[c].name = name

\* the rows of the elements of a set on which the WHERE expression holds,
\* in document order
RowsOfContexts(contexts) ==
    LET passing == {k \in contexts :
                       evaluateWhereExpr(doc, k, fileQuery.where, 0)}
        nodes == InOrder(passing)
    IN  [r \in 1..Len(nodes) |->
            contextRow(doc, filename(0), nodes[r], fileQuery.select_fields)]

\* C17: shorthand WHERE whose first condition is a comparison, on a document
\* whose root element is not the anchor field: the rows are those of the
\* elements that have an element named as the anchor field among their
\* children and on which the WHERE expression holds, one row each, in
\* document order.
C17_ShorthandContexts ==
    (pc = "post" /\ Strategy(fileQuery) = "shorthand"
        /\ ~AnchorIsNullCheck(fileQuery)
        /\ doc[1].name # AnchorCondition(fileQuery.where)[2].components[1]) =>
        allResults = RowsOfContexts(
            {k \in DOMAIN doc :
                ParentsName(doc, k,
                    AnchorCondition(fileQuery.where)[2].components[1])})

\* C18: shorthand WHERE whose first condition is IS NULL or IS NOT NULL,
\* alone or at the left of an AND / OR: the rows are those of the elements
\* that have a select field among their children and on which the WHERE
\* expression holds, so an element without the anchor field can give a row.
C18_NullCheckContexts ==
    (pc = "post" /\ Strategy(fileQuery) = "shorthand"
        /\ AnchorIsNullCheck(fileQuery)) =>
        allResults = RowsOfContexts(
            {k \in DOMAIN doc :
                \E f \in DOMAIN fileQuery.select_fields :
                    /\ ~fileQuery.select_fields[f].include_filename
                    /\ Len(fileQuery.select_fields[f].components) = 1
                    /\ ParentsName(doc, k,
                           fileQuery.select_fields[f].components[1])})

\* the elements the first FOR clause of the query matches in the document
ForMatches ==
    LET path == fileQuery.for_clauses[1]
    IN  IF Len(path) = 1 THEN {k \in DOMAIN doc : doc[k].name = path[1]}
        ELSE {k \in DOMAIN doc : MatchesUp(doc, DocNode, k, path)}

\* the matched elements that give a row: all of them without a WHERE, else
\* those on which it holds at depth 0
ForPassing ==
    IF fileQuery.where = NoWhere THEN ForMatches
    ELSE {k \in ForMatches : evaluateWhereExpr(doc, k, fileQuery.where, 0)}

\* C19: with a FOR clause, whether or not there is a WHERE, the rows are
\* one per element that the first FOR clause matches and that passes the
\* WHERE expression evaluated on it at depth 0 (every matched element
\* without a WHERE), in match order, each row taken relative to its element;
\* later FOR clauses play no part.
C19_ForPrecedence ==
    (pc = "post" /\ fileQuery.for_clauses # <<>>) =>
        /\ Len(allResults) = Cardinality(ForPassing)
        /\ \A r \in DOMAIN allResults :
               allResults[r] = contextRow(doc, filename(0),
                                          InOrder(ForPassing)[r],
                                          fileQuery.select_fields)

\* two FOR clauses and a WHERE: some matched elements pass and some do not,
\* and neither the WHERE walk nor the second FOR clause would give these rows
C19_Witness ==
    /\ pc = "post"
    /\ Len(fileQuery.for_clauses) = 2
    /\ fileQuery.where = WhereChoices[2]
    /\ Len(allResults) = 2
    /\ Cardinality(ForMatches) = 3
    /\ allResults # searchTree(doc, filename(0), fileQuery)
    /\ allResults # processFileWithForClauses(doc, filename(0),
                        [fileQuery EXCEPT !.for_clauses = Tail(@)])

\* the files whose rows are merged or whose processing has failed: a worker
\* has taken the file and is no longer appending its rows
MergedOrFailed ==
    {f \in DOMAIN processedBy :
        /\ processedBy[f] # <<>>
        /\ ~\E w \in DOMAIN wpc : wpc[w] = "insert" /\ fileIdx[w] = f - 1}

\* the files a worker has left behind: taken, and the worker is past its
\* increment for the file
Counted ==
    {f \in DOMAIN processedBy :
        /\ processedBy[f] # <<>>
        /\ ~\E w \in DOMAIN wpc :
               /\ wpc[w] \in {"insert", "increment", "catch"}
               /\ fileIdx[w] = f - 1}

\* the counter in one state of a threaded run
C20_Counter ==
    useThreading =>
        /\ completed = Cardinality(Counted)
        /\ 0 <= completed
        /\ completed <= Cardinality(MergedOrFailed)
        /\ Cardinality(MergedOrFailed) <= Len(xmlFiles)
        /\ pc \notin {"launch", "join"} => completed = Len(xmlFiles)
        /\ \A k \in DOMAIN calls : calls[k][1] <= calls[k][2]

\* C20: on the threaded path the counter is the number of files the workers
\* are done with, each file counted once, after its merge or in the handler
\* of its failure: it is never above the number of files merged or failed,
\* which is never above the total; it goes up by one at a time and never
\* down; and it is the total once the workers are joined.
C20_CompletedCounter ==
    /\ []C20_Counter
    /\ [][completed' = completed \/ completed' = completed + 1]_vars

\* a failed file has been counted, and a worker is between the merge of a
\* file and its increment
C20_Witness ==
    /\ useThreading
    /\ bad # {}
    /\ pc = "join"
    /\ completed >= 2
    /\ \E w \in DOMAIN wpc : wpc[w] = "increment"
    /\ completed < Cardinality(MergedOrFailed)

====
